---- MODULE Spec2Model ----
(***************************************************************************)
(* A model of src/app.py: a Streamlit chat script that reads every row of  *)
(* a Supabase table, ranks the rows against the question by the cosine     *)
(* similarity of sentence embeddings, and asks Gemini for an answer.       *)
(*                                                                         *)
(* One script run (top to bottom of app.py) is one step.  The Supabase     *)
(* table, the embedding model and Gemini are external: what they return,   *)
(* and whether they raise, is chosen by the environment.                   *)
(*                                                                         *)
(* Similarities are kept exact: a similarity is the pair (dot, nsq) that   *)
(* stands for dot / sqrt(nsq), or NaN when nsq = 0 (numpy's 0/0).  The     *)
(* rounding of floating point is not modelled.                             *)
(***************************************************************************)
EXTENDS Integers, Sequences, FiniteSets, TLC

VARIABLES
    messages,          \* st.session_state.messages
    gemini_api_key,    \* sidebar text input "Gemini API Key"
    supabase_url,      \* sidebar text input "Supabase URL"
    supabase_key,      \* sidebar text input "Supabase Key"
    clients,           \* st.cache_resource entry of initialize_clients
    chat_input_shown,  \* the last script run rendered st.chat_input
    turns,             \* chat submissions since the last clear (ghost)
    run,               \* what the last script run did (ghost)
    call               \* a stand-alone call of retrieve_relevant_context

vars == <<messages, gemini_api_key, supabase_url, supabase_key, clients,
          chat_input_shown, turns, run, call>>

session_vars == <<messages, gemini_api_key, supabase_url, supabase_key,
                  clients, chat_input_shown, turns, run>>

----------------------------------------------------------------------------
(* Bounds *)

\* chat submissions between two clears
MaxTurns == 2

\* rows of the table in a stand-alone ranking call
MaxDocs == 4

----------------------------------------------------------------------------
(* Python values *)

PyNone == [t |-> "none", s |-> ""]

PyStr(s) == [t |-> "str", s |-> s]

\* bool(v) for None and str
Truthy(v) == v.t = "str" /\ v.s # ""

\* a or b
PyOr(a, b) == IF Truthy(a) THEN a ELSE b

\* repr(v) for None and str (no quote inside the strings used here)
Repr(v) == IF v.t = "none" THEN "None" ELSE "'" \o v.s \o "'"

RECURSIVE Join(_, _)
\* sep.join(strs)
Join(strs, sep) ==
    IF strs = <<>> THEN ""
    ELSE IF Len(strs) = 1 THEN strs[1]
    ELSE strs[1] \o sep \o Join(Tail(strs), sep)

Range(f) == {f[i] : i \in DOMAIN f}

----------------------------------------------------------------------------
(* Rows.  A row is a dict: a function from the column names it has to      *)
(* Python values.  Only the three columns the code looks at are kept, in   *)
(* the order content, text, description.                                   *)

TextFields == <<"content", "text", "description">>

\* doc.get(key)
Get(doc, key) == IF key \in DOMAIN doc THEN doc[key] ELSE PyNone

\* str(doc)
StrDict(doc) ==
    LET keys  == SelectSeq(TextFields, LAMBDA k : k \in DOMAIN doc)
        items == [i \in 1..Len(keys) |->
                     "'" \o keys[i] \o "': " \o Repr(doc[keys[i]])]
    IN  "{" \o Join(items, ", ") \o "}"

\* RowText with "present" in place of "truthy": an empty or NULL column wins
RowText_FirstPresent(doc) ==
    IF "content" \in DOMAIN doc THEN doc["content"]
    ELSE IF "text" \in DOMAIN doc THEN doc["text"]
    ELSE IF "description" \in DOMAIN doc THEN doc["description"]
    ELSE PyStr(StrDict(doc))

\* doc.get('content') or doc.get('text') or doc.get('description') or str(doc)
RowText(doc) ==
    PyOr(Get(doc, "content"),
         PyOr(Get(doc, "text"),
              PyOr(Get(doc, "description"), PyStr(StrDict(doc)))))

\* the loop that fills doc_texts
DocTexts(documents) == [i \in 1..Len(documents) |-> RowText(documents[i])]

----------------------------------------------------------------------------
(* Embeddings and cosine similarity *)

RECURSIVE DotUpTo(_, _, _)
DotUpTo(a, b, n) ==
    IF n = 0 THEN 0 ELSE a[n] * b[n] + DotUpTo(a, b, n - 1)

\* np.dot(a, b) of two vectors of one length
Dot(a, b) == DotUpTo(a, b, Len(a))

\* np.linalg.norm(a) squared
NormSq(a) == Dot(a, a)

\* np.dot(d, q) / (norm(d) * norm(q)): a zero norm makes it 0/0, NaN
Similarity(d, q) ==
    [nan |-> NormSq(d) * NormSq(q) = 0,
     dot |-> Dot(d, q),
     nsq |-> NormSq(d) * NormSq(q)]

Sign(x) == IF x > 0 THEN 1 ELSE IF x < 0 THEN -1 ELSE 0

\* a < b for two numbers dot / sqrt(nsq), nsq > 0
NumLess(a, b) ==
    Sign(a.dot) * a.dot * a.dot * b.nsq < Sign(b.dot) * b.dot * b.dot * a.nsq

\* the order np.argsort sorts by: numbers ascending, NaN after every number
SortsBefore(a, b) ==
    IF a.nan THEN FALSE
    ELSE IF b.nan THEN TRUE
    ELSE NumLess(a, b)

\* np.argsort(similarities): the default sort is not stable, so equal
\* similarities may come out in any order
ArgSorts(similarities) ==
    LET n == Len(similarities)
    IN  {p \in Permutations(1..n) :
            \A i, j \in 1..n :
                i < j => ~SortsBefore(similarities[p[j]], similarities[p[i]])}

ThresholdNum == 1
ThresholdDen == 10

\* s > 0.1; False for NaN
AboveThreshold(s) ==
    /\ ~s.nan
    /\ s.dot > 0
    /\ ThresholdDen * ThresholdDen * s.dot * s.dot
         > ThresholdNum * ThresholdNum * s.nsq

\* order[-top_k:][::-1]
TopIndices(order, k) ==
    LET n == Len(order)
        m == IF k < n THEN k ELSE n
    IN  [i \in 1..m |-> order[n + 1 - i]]

top_k == 3

NoDocuments == "No documents found in the database."

NoContext == "No relevant context found."

\* the similarities array of a call (lines 104-110)
Similarities(query, documents, enc) ==
    LET doc_texts == DocTexts(documents)
    IN  [i \in 1..Len(doc_texts) |->
            Similarity(enc.vec[doc_texts[i].s], enc.vec[query])]

\* the top-k selection and the threshold filter (lines 113-115)
RelevantDocs(doc_texts, similarities, order, k) ==
    LET top_indices == TopIndices(order, k)
        kept        == SelectSeq(top_indices,
                          LAMBDA i : AboveThreshold(similarities[i]))
    IN  [i \in 1..Len(kept) |-> doc_texts[kept[i]].s]

(* retrieve_relevant_context(query, documents, embedding_model, top_k).     *)
(* enc is the embedding model's behaviour in this call: whether encode      *)
(* raises, and the vector it gives each text; order is the index array      *)
(* np.argsort returns.  The result says whether the call raised and, if     *)
(* not, the string returned.                                                *)
retrieve_relevant_context(query, documents, enc, order, k) ==
    IF documents = <<>> THEN
        [raised |-> FALSE, value |-> NoDocuments]
    ELSE IF enc.raises THEN
        [raised |-> TRUE, value |-> ""]
    ELSE
        LET relevant_docs ==
                RelevantDocs(DocTexts(documents),
                             Similarities(query, documents, enc), order, k)
        IN  [raised |-> FALSE,
             value  |-> IF relevant_docs # <<>>
                        THEN Join(relevant_docs, "\n\n") ELSE NoContext]

----------------------------------------------------------------------------
(* The external calls *)

\* fetch_data_from_supabase without its try/except
fetch_data_from_supabase_NoExcept(read) ==
    [raised     |-> ~read.ok,
     value      |-> read.data,
     diagnostic |-> ""]

(* fetch_data_from_supabase(supabase, table).  read is what                 *)
(* supabase.table(table).select("*").execute() does: it returns rows, or    *)
(* raises with a message.                                                   *)
fetch_data_from_supabase(read) ==
    [raised     |-> FALSE,
     value      |-> IF read.ok THEN read.data ELSE <<>>,
     diagnostic |-> IF read.ok THEN ""
                    ELSE "Error fetching data: " \o read.error]

\* the f-string of generate_response, line by line; the context is one entry
Prompt(query, context) ==
    << "You are a helpful AI assistant. Use the following context from the database to answer the user's question. ",
       "If the context doesn't contain relevant information, say so and provide a general answer if possible.",
       "",
       "Context from database:",
       context,
       "",
       "User Question: " \o query,
       "",
       "Answer:" >>

\* generate_response without its try/except
generate_response_NoExcept(query, context, llm) ==
    [raised |-> llm.kind # "ok",
     value  |-> llm.text,
     prompt |-> Prompt(query, context)]

(* generate_response(model, query, context).  llm is what the model does:   *)
(* "ok" returns a response whose text is llm.text, "call_error" raises in   *)
(* generate_content, "text_error" raises when response.text is read.        *)
generate_response(query, context, llm) ==
    [raised |-> FALSE,
     value  |-> IF llm.kind = "ok" THEN llm.text
                ELSE "Error generating response: " \o llm.text,
     prompt |-> Prompt(query, context)]

\* initialize_clients under st.cache_resource: its three parameters start
\* with an underscore, so they are not part of the cache key and the first
\* result is the result of every later call.  "ok" is (model, supabase),
\* "none" is (None, None).
initialize_clients(cache, outcome) ==
    IF cache # "unset" THEN cache ELSE outcome

\* line 142 with any() in place of all()
all_credentials_Any(g, u, k) == g # "" \/ u # "" \/ k # ""

\* all([gemini_api_key, supabase_url, supabase_key])
all_credentials(g, u, k) == g # "" /\ u # "" /\ k # ""

NoDocumentsResponse ==
    "No documents found in the database. Please check your table name and ensure it contains data."

----------------------------------------------------------------------------
(* One script run *)

\* a run that has done nothing yet
NoRun(log) ==
    [kind       |-> "none",
     cleared    |-> FALSE,
     raised     |-> FALSE,
     steps      |-> <<>>,
     log_before |-> log,
     query      |-> "",
     read_ok    |-> FALSE,
     diagnostic |-> "",
     documents  |-> <<>>,
     context    |-> "",
     prompt     |-> <<>>,
     llm        |-> "",
     response   |-> ""]

Message(role, content) == [role |-> role, content |-> content]

(* Lines 164-197: the chat input returned prompt.  The result is the log    *)
(* and the record of the run.  An exception that leaves one of the three    *)
(* functions ends the script run where it is.                               *)
ChatTurn(log, prompt, env) ==
    LET with_user == Append(log, Message("user", prompt))
        fetched   == fetch_data_from_supabase(env.read)
        base      == [NoRun(log) EXCEPT !.kind = "turn",
                                        !.query = prompt,
                                        !.read_ok = env.read.ok,
                                        !.diagnostic = fetched.diagnostic,
                                        !.documents = fetched.value,
                                        !.steps = <<"fetch">>]
    IN  IF fetched.raised THEN
            [messages |-> with_user, run |-> [base EXCEPT !.raised = TRUE]]
        ELSE IF fetched.value # <<>> THEN
            LET ranked == retrieve_relevant_context(prompt, fetched.value,
                                                    env.enc, env.order, top_k)
                r1     == [base EXCEPT !.steps = <<"fetch", "rank">>]
            IN  IF ranked.raised THEN
                    [messages |-> with_user, run |-> [r1 EXCEPT !.raised = TRUE]]
                ELSE
                    LET generated == generate_response(prompt, ranked.value, env.llm)
                        r2 == [r1 EXCEPT !.context = ranked.value,
                                         !.prompt = generated.prompt,
                                         !.llm = env.llm.kind,
                                         !.steps = <<"fetch", "rank", "generate">>]
                    IN  IF generated.raised THEN
                            [messages |-> with_user,
                             run |-> [r2 EXCEPT !.raised = TRUE]]
                        ELSE
                            [messages |-> Append(with_user,
                                            Message("assistant", generated.value)),
                             run |-> [r2 EXCEPT
                                        !.response = generated.value,
                                        !.steps = <<"fetch", "rank", "generate",
                                                    "append">>]]
        ELSE
            [messages |-> Append(with_user,
                                 Message("assistant", NoDocumentsResponse)),
             run |-> [base EXCEPT !.response = NoDocumentsResponse,
                                  !.steps = <<"fetch", "append">>]]

(* Lines 142-197: the script from the credential check on.  prompt is what  *)
(* st.chat_input returns (None unless the run is a chat submission).        *)
(* load_embedding_model (line 156) is cached and taken to succeed.          *)
Script(log, g, u, k, cache, prompt, env) ==
    IF ~all_credentials(g, u, k) THEN
        [messages |-> log, clients |-> cache, chat_input_shown |-> FALSE,
         run |-> [NoRun(log) EXCEPT !.kind = "warning"]]
    ELSE
        LET c == initialize_clients(cache, env.init)
        IN  IF c # "ok" THEN
                [messages |-> log, clients |-> c, chat_input_shown |-> FALSE,
                 run |-> [NoRun(log) EXCEPT !.kind = "no_clients"]]
            ELSE IF ~Truthy(prompt) THEN
                [messages |-> log, clients |-> c, chat_input_shown |-> TRUE,
                 run |-> [NoRun(log) EXCEPT !.kind = "idle"]]
            ELSE
                LET t == ChatTurn(log, prompt.s, env)
                IN  [messages |-> t.messages, clients |-> c,
                     chat_input_shown |-> TRUE, run |-> t.run]

----------------------------------------------------------------------------
(* What the user and the environment may choose *)

\* a sidebar field is empty or filled in
Credentials == {"", "set"}

Queries == {"what is alpha"}

\* what the table holds when a chat turn reads it
SessionTables ==
    { <<>>,
      << [content |-> PyStr("alpha")] >>,
      << [content |-> PyStr("alpha")], [text |-> PyStr("beta")] >> }

FetchErrors == {"network unreachable", "invalid API key", "relation does not exist"}

Reads ==
    {[ok |-> TRUE, data |-> t, error |-> ""] : t \in SessionTables}
      \cup {[ok |-> FALSE, data |-> <<>>, error |-> e] : e \in FetchErrors}

SessionVectors == {<<0, 0>>, <<1, 0>>, <<0, 1>>}

\* the texts a call of retrieve_relevant_context encodes
EncodedTexts(query, documents) ==
    {query} \cup {DocTexts(documents)[i].s : i \in 1..Len(documents)}

\* encode raises, or gives every text a vector
Encodings(texts, vectors) ==
    {[raises |-> TRUE, vec |-> [t \in texts |-> <<>>]]}
      \cup {[raises |-> FALSE, vec |-> v] : v \in [texts -> vectors]}

\* nothing is encoded when there is no document
EncodingsFor(query, documents, vectors) ==
    IF documents = <<>>
    THEN {[raises |-> FALSE, vec |-> [t \in {query} |-> <<>>]]}
    ELSE Encodings(EncodedTexts(query, documents), vectors)

\* the index arrays np.argsort may return in a call
OrdersFor(query, documents, enc) ==
    IF documents = <<>> \/ enc.raises THEN {<<>>}
    ELSE ArgSorts(Similarities(query, documents, enc))

LlmOutcomes ==
    { [kind |-> "ok", text |-> "alpha is the first letter"],
      [kind |-> "call_error", text |-> "quota exceeded"],
      [kind |-> "text_error", text |-> "response was blocked"] }

\* what initialize_clients does when it really runs
InitOutcomes(cache) == IF cache = "unset" THEN {"ok", "none"} ELSE {cache}

\* the environment of a run that is no chat submission
IdleEnv(outcome) ==
    [init  |-> outcome,
     read  |-> [ok |-> TRUE, data |-> <<>>, error |-> ""],
     enc   |-> [raises |-> FALSE, vec |-> <<>>],
     order |-> <<>>,
     llm   |-> [kind |-> "ok", text |-> ""]]

NoCall ==
    [stage        |-> "none",
     query        |-> "",
     documents    |-> <<>>,
     enc          |-> [raises |-> FALSE, vec |-> <<>>],
     doc_texts    |-> <<>>,
     similarities |-> <<>>,
     order        |-> <<>>,
     raised       |-> FALSE,
     result       |-> ""]

----------------------------------------------------------------------------
(* The session *)

Init ==
    /\ messages = <<>>
    /\ gemini_api_key \in Credentials
    /\ supabase_url \in Credentials
    /\ supabase_key \in Credentials
    /\ clients = "unset"
    /\ chat_input_shown = FALSE
    /\ turns = 0
    /\ run = NoRun(<<>>)
    /\ call = NoCall

\* the session state a script run leaves
Leaves(r) ==
    /\ messages' = r.messages
    /\ clients' = r.clients
    /\ chat_input_shown' = r.chat_input_shown
    /\ run' = r.run

\* the page is loaded or rerun with no widget changed
Rerun ==
    /\ \E o \in InitOutcomes(clients) :
         Leaves(Script(messages, gemini_api_key, supabase_url, supabase_key,
                       clients, PyNone, IdleEnv(o)))
    /\ UNCHANGED <<gemini_api_key, supabase_url, supabase_key, turns, call>>

\* the user changes the sidebar fields, which reruns the script
EditCredentials ==
    /\ \E g, u, k \in Credentials :
         /\ <<g, u, k>> # <<gemini_api_key, supabase_url, supabase_key>>
         /\ gemini_api_key' = g
         /\ supabase_url' = u
         /\ supabase_key' = k
         /\ \E o \in InitOutcomes(clients) :
              Leaves(Script(messages, g, u, k, clients, PyNone, IdleEnv(o)))
    /\ UNCHANGED <<turns, call>>

\* lines 46-48: the button empties the log and st.rerun() starts the script
\* again, with no widget set
ClearChatHistory ==
    /\ \E o \in InitOutcomes(clients) :
         LET r == Script(<<>>, gemini_api_key, supabase_url, supabase_key,
                         clients, PyNone, IdleEnv(o))
         IN  Leaves([r EXCEPT !.run.cleared = TRUE,
                              !.run.log_before = messages])
    /\ turns' = 0
    /\ UNCHANGED <<gemini_api_key, supabase_url, supabase_key, call>>

\* the user submits a question in the chat input of the last run
ChatSubmit ==
    /\ chat_input_shown
    /\ turns < MaxTurns
    /\ \E q \in Queries, read \in Reads, llm \in LlmOutcomes,
          o \in InitOutcomes(clients) :
         \E enc \in EncodingsFor(q, read.data, SessionVectors) :
           \E order \in OrdersFor(q, read.data, enc) :
             Leaves(Script(messages, gemini_api_key, supabase_url,
                           supabase_key, clients, PyStr(q),
                           [init |-> o, read |-> read, enc |-> enc,
                            order |-> order, llm |-> llm]))
    /\ turns' = turns + 1
    /\ UNCHANGED <<gemini_api_key, supabase_url, supabase_key, call>>

Next == Rerun \/ EditCredentials \/ ClearChatHistory \/ ChatSubmit

Spec == Init /\ [][Next]_vars

----------------------------------------------------------------------------
(* retrieve_relevant_context on its own *)

FieldValues == {PyNone, PyStr(""), PyStr("alpha"), PyStr("beta")}

\* every row over the three columns
Rows == UNION {[D -> FieldValues] : D \in SUBSET Range(TextFields)}

PlainTexts == <<"alpha", "beta", "gamma", "delta", "epsilon", "zeta">>

\* the first n plain rows
PlainTable(n) == [i \in 1..n |-> [content |-> PyStr(PlainTexts[i])]]

\* no row, one row of any shape, or up to MaxDocs plain rows
RetrieveTables ==
    {<<>>} \cup {<<r>> : r \in Rows} \cup {PlainTable(n) : n \in 2..MaxDocs}

RetrieveVectors == {<<0, 0>>, <<1, 0>>, <<0, 1>>, <<-1, 1>>}

\* vectors with a pair of cosine similarity exactly 1/10
BoundaryVectors == {<<0, 0, 0, 0>>, <<1, 0, 0, 0>>, <<1, 9, 3, 3>>}

\* all vectors of a call have one length
VectorSets == {RetrieveVectors, BoundaryVectors}

InitRetrieve ==
    /\ messages = <<>>
    /\ gemini_api_key = "set"
    /\ supabase_url = "set"
    /\ supabase_key = "set"
    /\ clients = "unset"
    /\ chat_input_shown = FALSE
    /\ turns = 0
    /\ run = NoRun(<<>>)
    /\ \E q \in Queries, documents \in RetrieveTables, vectors \in VectorSets :
         \E enc \in Encodings(EncodedTexts(q, documents), vectors) :
           call = [NoCall EXCEPT !.stage = "input", !.query = q,
                                 !.documents = documents, !.enc = enc]

\* the call is made
Retrieve ==
    /\ call.stage = "input"
    /\ \E order \in OrdersFor(call.query, call.documents, call.enc) :
         LET r == retrieve_relevant_context(call.query, call.documents,
                                            call.enc, order, top_k)
         IN  call' = [call EXCEPT
                        !.stage = "done",
                        !.doc_texts = DocTexts(call.documents),
                        !.similarities =
                            IF call.enc.raises THEN <<>>
                            ELSE Similarities(call.query, call.documents, call.enc),
                        !.order = order,
                        !.raised = r.raised,
                        !.result = r.value]
    /\ UNCHANGED session_vars

NextRetrieve == Retrieve

SpecRetrieve == InitRetrieve /\ [][NextRetrieve]_vars

----------------------------------------------------------------------------
(* Properties of the session (checked under Spec) *)

Last(seq) == seq[Len(seq)]

MissingCredential ==
    gemini_api_key = "" \/ supabase_url = "" \/ supabase_key = ""

\* C1: after N chat submissions since the last clear the log holds exactly
\* 2N messages, and a clear leaves the log empty.
C1_LogLength ==
    /\ Len(messages) = 2 * turns
    /\ run.cleared => Len(messages) = 0

\* C2: no failure of an external call escapes a turn, and the log never ends
\* with a user message that has no assistant message after it.
C2_NoEscape ==
    /\ ~run.raised
    /\ messages # <<>> => Last(messages).role = "assistant"

\* C3: fetch_data_from_supabase never raises to the turn, and when the table
\* read fails the sequence it returns is empty.
C3_FetchNeverRaises ==
    run.kind = "turn" =>
        /\ ~(run.raised /\ run.steps = <<"fetch">>)
        /\ ~run.read_ok => run.documents = <<>> /\ Len(run.steps) > 1
        /\ run.documents \in SessionTables

\* a turn whose table read failed went on past the fetch
C3_Witness ==
    /\ run.kind = "turn"
    /\ ~run.read_ok
    /\ run.steps = <<"fetch", "append">>

\* C4: generate_response always returns a string; when the model call or the
\* reading of its text fails the string is "Error generating response: ..."
\* and it is the assistant message the turn appends.
C4_GenerateReturnsText ==
    (run.kind = "turn" /\ Len(run.steps) >= 3) =>
        /\ ~run.raised
        /\ run.steps = <<"fetch", "rank", "generate", "append">>
        /\ \E o \in LlmOutcomes :
             /\ o.kind = run.llm
             /\ run.response = IF o.kind = "ok" THEN o.text
                               ELSE "Error generating response: " \o o.text
        /\ Last(messages) = Message("assistant", run.response)

\* a turn in which reading response.text failed
C4_Witness ==
    /\ run.kind = "turn"
    /\ run.llm = "text_error"
    /\ Last(messages).content = "Error generating response: response was blocked"

\* C5 as stated: while a credential is empty or there are no clients, a
\* script run reads no table, ranks nothing, calls no model and leaves the
\* log as it was.
C5_GateLeavesLog ==
    (run.kind # "none" /\ (MissingCredential \/ clients = "none")) =>
        /\ run.steps = <<>>
        /\ run.kind \in {"warning", "no_clients"}
        /\ messages = run.log_before

\* C5 amended: such a run reads no table, ranks nothing, calls no model and
\* appends nothing to the log; the log is as it was, or empty when the run
\* was started by Clear Chat History.
C5_GateAppendsNothing ==
    (run.kind # "none" /\ (MissingCredential \/ clients = "none")) =>
        /\ run.steps = <<>>
        /\ run.kind \in {"warning", "no_clients"}
        /\ messages = IF run.cleared THEN <<>> ELSE run.log_before

\* a run stopped at the credential check with a conversation in the log
C5_Witness ==
    /\ MissingCredential
    /\ run.kind = "warning"
    /\ ~run.cleared
    /\ Len(messages) >= 2

\* "{ROLE}: {content}", in either case of the role
HistoryLines(m) ==
    { m.role \o ": " \o m.content,
      (IF m.role = "user" THEN "USER" ELSE "ASSISTANT") \o ": " \o m.content }

\* the last n entries of a sequence
LastN(seq, n) == SubSeq(seq, Len(seq) - n + 1, Len(seq))

Min(a, b) == IF a < b THEN a ELSE b

\* C8: the prompt given to the model holds the last min(memory_length, log
\* length) messages of the log, in log order, for a memory_length in 3..12.
C8_PromptHoldsHistory ==
    run.prompt # <<>> =>
        \E memory_length \in 3..12 :
            LET history == LastN(run.log_before,
                                 Min(memory_length, Len(run.log_before)))
            IN  \E at \in 0..Len(run.prompt) :
                    \A j \in 1..Len(history) :
                        /\ at + j <= Len(run.prompt)
                        /\ run.prompt[at + j] \in HistoryLines(history[j])

\* C9: a turn that runs to its end goes through fetch, rank, generate and
\* append in that order, also when the table read failed or gave no rows:
\* the model is then called once with the "no documents" context.
C9_TurnAlwaysGenerates ==
    (run.kind = "turn" /\ ~run.raised) =>
        /\ run.steps = <<"fetch", "rank", "generate", "append">>
        /\ run.documents = <<>> =>
             run.prompt = Prompt(run.query, NoDocuments)

----------------------------------------------------------------------------
(* Properties of retrieve_relevant_context (checked under SpecRetrieve) *)

Ranked == call.stage = "done" /\ ~call.raised

\* the similarity the specification gives a pair of vectors: 0 for a zero norm
DefinedSimilarity(s) == IF s.nan THEN [nan |-> FALSE, dot |-> 0, nsq |-> 1] ELSE s

\* s >= 0.1
NotBelowThreshold(s) ==
    /\ s.dot > 0
    /\ ThresholdDen * ThresholdDen * s.dot * s.dot
         >= ThresholdNum * ThresholdNum * s.nsq

\* C6: the result is the texts of those of the top_k most similar documents
\* whose similarity is not below 0.1, most similar first, joined by a blank
\* line, and the sentinel when there is none.
C6_TopKAboveThreshold ==
    (Ranked /\ call.documents # <<>>) =>
        LET sims == [i \in 1..Len(call.similarities) |->
                        DefinedSimilarity(call.similarities[i])]
        IN  \E order \in ArgSorts(sims) :
                LET top  == TopIndices(order, top_k)
                    kept == SelectSeq(top, LAMBDA i : NotBelowThreshold(sims[i]))
                    txts == [i \in 1..Len(kept) |-> call.doc_texts[kept[i]].s]
                IN  /\ Len(kept) <= top_k
                    /\ call.result = IF kept = <<>> THEN NoContext
                                     ELSE Join(txts, "\n\n")

\* C7: a zero norm gives the similarity 0, and no NaN is ranked.
C7_ZeroNormIsZero ==
    Ranked =>
        \A i \in 1..Len(call.similarities) :
            /\ ~call.similarities[i].nan
            /\ (NormSq(call.enc.vec[call.doc_texts[i].s]) = 0
                  \/ NormSq(call.enc.vec[call.query]) = 0)
                 => call.similarities[i].dot = 0

\* the columns of a row that satisfy a condition, in precedence order
FieldsWhere(doc, Cond(_)) ==
    SelectSeq(TextFields, LAMBDA f : f \in DOMAIN doc /\ Cond(doc[f]))

\* C10 as stated: the text of a row is the value of the first of content,
\* text, description the row has, and the stringified row when it has none.
C10_FirstPresentField ==
    Ranked =>
        \A i \in 1..Len(call.documents) :
            LET doc     == call.documents[i]
                present == FieldsWhere(doc, LAMBDA v : TRUE)
            IN  call.doc_texts[i] = IF present # <<>> THEN doc[present[1]]
                                    ELSE PyStr(StrDict(doc))

\* C10 amended: the text of a row is the value of the first of content,
\* text, description that holds a non-empty string, and the stringified row
\* when none of them does.
C10_FirstNonEmptyField ==
    Ranked =>
        \A i \in 1..Len(call.documents) :
            LET doc  == call.documents[i]
                full == FieldsWhere(doc, LAMBDA v : v.t = "str" /\ v.s # "")
            IN  call.doc_texts[i] = IF full # <<>> THEN doc[full[1]]
                                    ELSE PyStr(StrDict(doc))

\* a row with an empty content and a text was ranked by its text
C10_Witness ==
    /\ Ranked
    /\ Len(call.documents) = 1
    /\ "content" \in DOMAIN call.documents[1]
    /\ call.documents[1]["content"] = PyStr("")
    /\ "text" \in DOMAIN call.documents[1]
    /\ call.doc_texts[1] = call.documents[1]["text"]
    /\ call.doc_texts[1] = PyStr("beta")
    /\ call.result = "beta"

====
